---- MODULE Spec2Model ----
(***************************************************************************)
(* Model of src/src/app.rs: the Yew component `App` with its media         *)
(* recorder, its speech-recognition WPM estimator and its teleprompter.    *)
(*                                                                         *)
(* Every handler of the component runs to completion on the browser's      *)
(* single event loop, and Yew re-renders (and re-runs the effects whose    *)
(* dependencies changed) in a microtask before the next event is           *)
(* dispatched.  One action of the model is therefore one handler together  *)
(* with the re-render it causes.                                           *)
(***************************************************************************)
EXTENDS Integers, Sequences, FiniteSets, TLC

(***************************************************************************)
(* IEEE-754 binary64 arithmetic on non-negative values, as Rust's f64      *)
(* performs it (round to nearest, ties to even).  A mantissa is a natural  *)
(* number held as a little-endian sequence of 15-bit limbs.                *)
(***************************************************************************)
LimbBase == 2^15

RECURSIVE BigFromNat(_)
BigFromNat(n) == IF n = 0 THEN <<>> ELSE <<n % LimbBase>> \o BigFromNat(n \div LimbBase)

RECURSIVE BigToNat(_)
BigToNat(a) == IF a = <<>> THEN 0 ELSE Head(a) + LimbBase * BigToNat(Tail(a))

\* a without its leading (high) zero limbs.
RECURSIVE BigTrim(_)
BigTrim(a) ==
    IF a = <<>> THEN <<>>
    ELSE IF a[Len(a)] # 0 THEN a
    ELSE BigTrim(SubSeq(a, 1, Len(a) - 1))

BigLimb(a, i) == IF i >= 1 /\ i <= Len(a) THEN a[i] ELSE 0

\* a * k + c for small k and c.
RECURSIVE BigMulNat(_, _, _)
BigMulNat(a, k, c) ==
    IF a = <<>> THEN BigFromNat(c)
    ELSE LET s == Head(a) * k + c
         IN  <<s % LimbBase>> \o BigMulNat(Tail(a), k, s \div LimbBase)

\* a + b + c for a carry c.
RECURSIVE BigAddCarry(_, _, _)
BigAddCarry(a, b, c) ==
    IF a = <<>> /\ b = <<>> THEN BigFromNat(c)
    ELSE LET s == BigLimb(a, 1) + BigLimb(b, 1) + c
         IN  <<s % LimbBase>>
                \o BigAddCarry(IF a = <<>> THEN a ELSE Tail(a),
                               IF b = <<>> THEN b ELSE Tail(b), s \div LimbBase)

BigAdd(a, b) == BigAddCarry(a, b, 0)

\* a - b - c for a >= b + c, limb by limb with borrow c.
RECURSIVE BigSubBorrow(_, _, _)
BigSubBorrow(a, b, c) ==
    IF a = <<>> THEN <<>>
    ELSE LET s == Head(a) - BigLimb(b, 1) - c
         IN  <<s % LimbBase>>
                \o BigSubBorrow(Tail(a), IF b = <<>> THEN b ELSE Tail(b),
                                IF s < 0 THEN 1 ELSE 0)

BigSub(a, b) == BigTrim(BigSubBorrow(a, b, 0))

\* a >= b for trimmed a, b.
RECURSIVE BigGeq(_, _)
BigGeq(a, b) ==
    IF Len(a) # Len(b) THEN Len(a) > Len(b)
    ELSE IF a = <<>> THEN TRUE
    ELSE IF a[Len(a)] # b[Len(b)] THEN a[Len(a)] > b[Len(b)]
    ELSE BigGeq(SubSeq(a, 1, Len(a) - 1), SubSeq(b, 1, Len(b) - 1))

BigShl(a, s) ==
    IF a = <<>> THEN <<>>
    ELSE [i \in 1..(s \div 15) |-> 0] \o BigMulNat(a, 2^(s % 15), 0)

\* Quotient of a by a small d (long division from the high limb), with the
\* remainder r carried in from above.
RECURSIVE BigDivRem(_, _, _)
BigDivRem(a, d, r) ==
    IF a = <<>> THEN <<>>
    ELSE LET x == r * LimbBase + a[Len(a)]
         IN  BigDivRem(SubSeq(a, 1, Len(a) - 1), d, x % d) \o <<x \div d>>

BigShr(a, s) ==
    IF s \div 15 >= Len(a) THEN <<>>
    ELSE BigTrim(BigDivRem(SubSeq(a, s \div 15 + 1, Len(a)), 2^(s % 15), 0))

RECURSIVE NatBitLen(_)
NatBitLen(n) == IF n = 0 THEN 0 ELSE 1 + NatBitLen(n \div 2)

BigBitLen(a) == IF a = <<>> THEN 0 ELSE 15 * (Len(a) - 1) + NatBitLen(a[Len(a)])

BigBit(a, i) ==
    IF i \div 15 + 1 > Len(a) THEN 0 ELSE (a[i \div 15 + 1] \div 2^(i % 15)) % 2

\* Some bit below bit t of a is set.
BigLowBits(a, t) ==
    \/ \E i \in 1..Len(a) : i <= t \div 15 /\ a[i] # 0
    \/ t \div 15 < Len(a) /\ a[t \div 15 + 1] % 2^(t % 15) # 0

F64Zero == [m |-> <<>>, e |-> 0]

\* The f64 nearest to big * 2^e (plus a non-zero tail below it when sticky).
F64Round(big, e, sticky) ==
    LET n == BigBitLen(big)
        sh == n - 53
    IN  IF n = 0 THEN F64Zero
        ELSE IF n <= 53 THEN [m |-> BigShl(big, 53 - n), e |-> e - (53 - n)]
        ELSE LET keep == BigShr(big, sh)
                 up == /\ BigBit(big, sh - 1) = 1
                       /\ (sticky \/ BigLowBits(big, sh - 1) \/ keep[1] % 2 = 1)
                 k2 == IF up THEN BigAdd(keep, <<1>>) ELSE keep
             IN  IF BigBitLen(k2) = 54 THEN [m |-> BigShr(k2, 1), e |-> e + sh + 1]
                 ELSE [m |-> k2, e |-> e + sh]

\* `n as f64`
F64FromNat(n) == F64Round(BigFromNat(n), 0, FALSE)

\* f * k for an f64 k that holds a small natural number exactly.
F64MulNat(f, k) == F64Round(BigMulNat(f.m, k, 0), f.e, FALSE)

F64Add(f, g) ==
    IF f.m = <<>> THEN g
    ELSE IF g.m = <<>> THEN f
    ELSE LET e == IF f.e < g.e THEN f.e ELSE g.e
         IN  F64Round(BigAdd(BigShl(f.m, f.e - e), BigShl(g.m, g.e - e)), e, FALSE)

\* One limb of the quotient of rb by d: the largest q <= qhat with q * d <= rb.
RECURSIVE QuotLimbFix(_, _, _)
QuotLimbFix(rb, d, qhat) ==
    IF BigGeq(rb, BigTrim(BigMulNat(d, qhat, 0))) THEN qhat
    ELSE QuotLimbFix(rb, d, qhat - 1)

\* One limb of the long division by d (top limb of d >= LimbBase / 2) from
\* the remainder r < d: the quotient limb and the next remainder.
DivLimb(r, d) ==
    LET rb == IF r = <<>> THEN <<>> ELSE <<0>> \o r
        top == BigLimb(rb, Len(d) + 1) * LimbBase + BigLimb(rb, Len(d))
        est == top \div d[Len(d)]
        q == QuotLimbFix(rb, d, IF est > LimbBase - 1 THEN LimbBase - 1 ELSE est)
    IN  [q |-> q, r |-> BigSub(rb, BigTrim(BigMulNat(d, q, 0)))]

\* The next n limbs of the quotient (little-endian) and the last remainder.
RECURSIVE DivLimbs(_, _, _)
DivLimbs(r, d, n) ==
    IF n = 0 THEN [q |-> <<>>, r |-> r]
    ELSE LET hi == DivLimb(r, d)
             lo == DivLimbs(hi.r, d, n - 1)
         IN  [q |-> lo.q \o <<hi.q>>, r |-> lo.r]

\* f / g for g > 0: 60 fraction bits of the mantissas' quotient, then rounded.
\* Both 53-bit mantissas are shifted to 60 bits, four full limbs.
F64Div(f, g) ==
    IF f.m = <<>> THEN F64Zero
    ELSE LET a == BigShl(f.m, 7)
             d == BigShl(g.m, 7)
             q0 == IF BigGeq(a, d) THEN 1 ELSE 0
             r0 == IF q0 = 1 THEN BigSub(a, d) ELSE a
             qr == DivLimbs(r0, d, 4)
         IN  F64Round(BigTrim(qr.q \o <<q0>>), f.e - g.e - 60, qr.r # <<>>)

\* f > g
F64Gt(f, g) ==
    IF f.m = <<>> THEN FALSE
    ELSE IF g.m = <<>> THEN TRUE
    ELSE IF f.e # g.e THEN f.e > g.e
    ELSE f.m # g.m /\ BigGeq(f.m, g.m)

\* f64::round (half away from zero) followed by `as u32`.
F64RoundU32(f) ==
    IF f.m = <<>> \/ f.e < -53 THEN 0
    ELSE IF f.e >= 0 THEN BigToNat(BigShl(f.m, f.e))
    ELSE BigToNat(BigShr(f.m, 0 - f.e)) + BigBit(f.m, 0 - f.e - 1)

\* `as i32`: truncation toward zero, saturating at i32::MAX.
F64TruncI32(f) ==
    LET t == IF f.m = <<>> \/ f.e <= -53 THEN <<>>
             ELSE IF f.e >= 0 THEN BigShl(f.m, f.e)
             ELSE BigShr(f.m, 0 - f.e)
    IN  IF BigBitLen(t) > 31 THEN 2147483647 ELSE BigToNat(t)

(***************************************************************************)
(* Bounds of the model.                                                    *)
(***************************************************************************)
\* Blobs the MediaRecorder creates over the life of the page.
MaxBlobs == 4
\* Object URLs created by merges.
MaxUrls == 2
\* Ticks one Interval fires before it is cancelled.
MaxTicks == 8
\* Results carried by one SpeechRecognitionEvent.
MaxResults == 2

\* Sizes (bytes) of the blobs the recorder delivers.
BlobSizes == {10, 15, 20}
\* Transcripts of a recognition result ("a" is a letter, " " a space).
Transcripts == {<<"a">>, <<"a", " ", " ", "a">>}
ResultLists == UNION {[1..len -> Transcripts] : len \in 0..MaxResults}
\* js_sys::Date::now() - start_time at a result event, in milliseconds.
ElapsedMs == {1000, 2000, 14400}
\* Texts typed into the script textarea.
Scripts == {"", "hello world"}

VARIABLES
    media,            \* getUserMedia promise awaited by init_recorder
    recorder_handle,  \* use_state: Option<MediaRecorder>
    status,           \* use_state: RecordingStatus
    chunks,           \* use_state: Vec<Blob>
    playback_url,     \* use_state: Option<String>, 0 is None
    rec_state,        \* MediaRecorder.state of the recorder
    rec_tasks,        \* tasks the recorder has queued on the event loop
    blobs_made,       \* blobs the recorder has created so far
    object_urls,      \* URL store: url i refers to the blob object_urls[i]
    session,          \* history: blobs delivered since the last start()
    session_end,      \* history: what ended that session ("stop" or "tracks")
    wpm,              \* use_state: u32
    recog,            \* the SpeechRecognition object
    script,           \* use_state: String
    is_prompting,     \* use_state: bool
    interval,         \* the gloo Interval of the teleprompter effect
    scroll_top,       \* last value given to set_scroll_top
    ticked_before,    \* history: the Interval the last toggle-off cancelled had ticked
    timers,           \* timers set with setInterval and not cleared since
    mounted,          \* the component has not been torn down
    panicked,         \* an unwrap() hit an Err
    event             \* history: the handler that ran last

recorder_vars == <<media, recorder_handle, status, chunks, playback_url, rec_state,
                   rec_tasks, blobs_made, object_urls, session, session_end>>
prompter_vars == <<wpm, recog, script, is_prompting, interval, scroll_top, ticked_before,
                   timers, mounted>>
vars == <<recorder_vars, prompter_vars, panicked, event>>

\* The handler that ran last, with what it was given and what it did:
\* onresult's word count, elapsed time and the estimate it found; whether
\* onclick_stop merged, and the recorder state its stop() call met.
Ev(name) == [name |-> name, words |-> 0, ms |-> 0, was |-> 0, merged |-> FALSE,
             stop_on |-> "none"]

(***************************************************************************)
(* The transcript estimator (onresult closure).                            *)
(***************************************************************************)
\* transcript: every result's first alternative followed by a space.
RECURSIVE Transcript(_)
Transcript(results) ==
    IF results = <<>> THEN <<>>
    ELSE Head(results) \o <<" ">> \o Transcript(Tail(results))

\* str::split_whitespace().count()
RECURSIVE SplitWhitespaceCount(_, _)
SplitWhitespaceCount(text, in_word) ==
    IF text = <<>> THEN 0
    ELSE IF Head(text) = " " THEN SplitWhitespaceCount(Tail(text), FALSE)
    ELSE (IF in_word THEN 0 ELSE 1) + SplitWhitespaceCount(Tail(text), TRUE)

Words(results) == SplitWhitespaceCount(Transcript(results), FALSE)

\* elapsed = (Date::now() - start_time) / 1000.0
Elapsed(ms) == F64Div(F64FromNat(ms), F64FromNat(1000))

\* current_wpm.round() as u32, for current_wpm = (words / elapsed) * 60.0
CurrentWpm(words, ms) ==
    F64RoundU32(F64MulNat(F64Div(F64FromNat(words), Elapsed(ms)), 60))

\* What onresult does with the wpm state: the value it sets, if it sets one.
OnResultSet(results, ms) ==
    [set |-> F64Gt(Elapsed(ms), F64FromNat(1)),
     words |-> Words(results),
     wpm |-> IF F64Gt(Elapsed(ms), F64FromNat(1)) THEN CurrentWpm(Words(results), ms)
             ELSE 0]

\* OnResultSet, evaluated once for every input of the model.
\* (@@ makes the table an explicit function)
OnResultMemo ==
    [input \in ResultLists \X ElapsedMs |-> OnResultSet(input[1], input[2])] @@ <<>>

WpmValues == {120} \cup {OnResultMemo[<<results, ms>>].wpm : results \in ResultLists, ms \in ElapsedMs}

(***************************************************************************)
(* The teleprompter effect, keyed on (is_prompting, wpm, script).          *)
(***************************************************************************)
\* words_per_ms = wpm_val as f64 / 60_000.0
WordsPerMs(wpm_val) == F64Div(F64FromNat(wpm_val), F64FromNat(60000))

WordsPerMsMemo == [wpm_val \in WpmValues |-> WordsPerMs(wpm_val)] @@ <<>>

NoInterval == [on |-> FALSE]

\* A faulty effect that resumes from the offset on screen (see C7).
TeleEffectResume(start, wpm_val, how) ==
    IF start
    THEN [on |-> TRUE, words_per_ms |-> WordsPerMsMemo[wpm_val],
          acc |-> F64Div(F64FromNat(scroll_top), F64FromNat(20)),
          ticks |-> 0, wpm_val |-> wpm_val, how |-> how]
    ELSE NoInterval

\* The effect body: Some(Interval) with acc = 0.0 when start, None otherwise.
\* (with, as history, the rate it captured, its ticks and how it came to be:
\* by which handler's re-render, and whether the Interval before it had ticked)
TeleEffect(start, wpm_val, how) ==
    IF start
    THEN [on |-> TRUE, words_per_ms |-> WordsPerMsMemo[wpm_val], acc |-> F64Zero,
          ticks |-> 0, wpm_val |-> wpm_val, how |-> how]
    ELSE NoInterval

\* A faulty re-render whose cleanup leaves the Interval running when the
\* prompter is switched off (see C13).
RerenderKeeps(old_deps, new_deps, how) ==
    IF new_deps = old_deps \/ ~new_deps[1] THEN interval
    ELSE TeleEffect(new_deps[1], new_deps[2], how)

\* A faulty re-render whose effect depends on is_prompting alone (see C18).
RerenderOnToggle(old_deps, new_deps, how) ==
    IF new_deps[1] = old_deps[1] THEN interval
    ELSE TeleEffect(new_deps[1], new_deps[2], how)

\* A re-render: when the dependencies changed, the old effect's cleanup drops
\* its Interval and the effect runs again; otherwise the Interval lives on.
Rerender(old_deps, new_deps, how) ==
    IF new_deps = old_deps THEN interval
    ELSE TeleEffect(new_deps[1], new_deps[2], how)

\* A faulty cleanup that lets go of the Interval without cancelling it
\* (see C19).
CleanupForgets(iv, count) == count

\* The cleanup closure: drop(interval) clears the timer of a Some(Interval).
Cleanup(iv, count) == IF iv.on THEN count - 1 ELSE count

\* The timers left by a re-render: the cleanup's, and one more for the
\* Interval::new of an effect that starts.
TimersAfter(old_deps, new_deps) ==
    IF new_deps = old_deps THEN timers
    ELSE Cleanup(interval, timers) + (IF new_deps[1] THEN 1 ELSE 0)

Ticked(iv) == iv.on /\ iv.ticks > 0

\* acc += words_per_ms * 50.0
TickAcc(iv) == F64Add(iv.acc, F64MulNat(iv.words_per_ms, 50))

\* (acc * 20.0) as i32
ScrollOffset(acc_val) == F64TruncI32(F64MulNat(acc_val, 20))

(***************************************************************************)
(* The recorder: init_recorder, the MediaRecorder and the three buttons.   *)
(*                                                                         *)
(* The MediaRecorder follows the W3C MediaStream Recording interface:      *)
(* start() and pause() throw InvalidStateError in the wrong state, stop()  *)
(* on an inactive recorder does nothing, and stop() on an active one makes *)
(* it inactive at once and queues a task that fires dataavailable (with    *)
(* the data gathered so far) and then stop.  While recording, the device   *)
(* may also deliver data on its own (section 6 of the specification: the   *)
(* stream yields onDataAvailable events).                                  *)
(***************************************************************************)
\* disabled attributes of the three buttons
RecordDisabled == status # "Idle"
PauseDisabled == status # "Recording"
StopDisabled == status = "Recording"

\* What `*chunks_clone` is inside the ondataavailable closure.  The closure
\* owns the UseStateHandle of the render in which init_recorder was spawned
\* (the first one); a handle dereferences to the value of its own render, so
\* this is the Vec::new() the state started with, whatever was set since.
ChunksClone == <<>>

\* ondataavailable: current = (*chunks_clone).clone(); current.push(blob);
\* chunks_clone.set(current)
OnDataAvailable(blob) == Append(ChunksClone, blob)

\* getUserMedia resolved: the recorder is built, its closures installed.
InitRecorderOk ==
    /\ ~panicked
    /\ media = "awaiting"
    /\ media' = "granted"
    /\ recorder_handle' = "Some"
    /\ rec_state' = "inactive"
    /\ status' = "Idle"
    /\ event' = Ev("init_recorder_ok")
    /\ UNCHANGED <<chunks, playback_url, rec_tasks, blobs_made, object_urls, session,
                   session_end, prompter_vars, panicked>>

\* getUserMedia rejected: the error is logged, nothing else happens.
InitRecorderErr ==
    /\ ~panicked
    /\ media = "awaiting"
    /\ media' = "denied"
    /\ event' = Ev("init_recorder_err")
    /\ UNCHANGED <<recorder_handle, status, chunks, playback_url, rec_state, rec_tasks,
                   blobs_made, object_urls, session, session_end, prompter_vars, panicked>>

\* A faulty onclick_start that sets the status outside `if let Some(rec)`
\* (see C12).
OnClickStartUnguarded ==
    /\ ~panicked
    /\ mounted
    /\ ~RecordDisabled
    /\ blobs_made < MaxBlobs
    /\ event' = Ev("onclick_start")
    /\ status' = "Recording"
    /\ IF recorder_handle = "Some"
       THEN IF rec_state = "inactive"
            THEN /\ rec_state' = "recording"
                 /\ session' = <<>>
                 /\ session_end' = "none"
                 /\ UNCHANGED panicked
            ELSE /\ panicked' = TRUE
                 /\ UNCHANGED <<rec_state, session, session_end>>
       ELSE UNCHANGED <<rec_state, session, session_end, panicked>>
    /\ UNCHANGED <<media, recorder_handle, chunks, playback_url, rec_tasks, blobs_made,
                   object_urls, prompter_vars>>

OnClickStart ==
    /\ ~panicked
    /\ mounted
    /\ ~RecordDisabled
    /\ blobs_made < MaxBlobs
    /\ event' = Ev("onclick_start")
    /\ IF recorder_handle = "Some"
       THEN IF rec_state = "inactive"
            THEN /\ rec_state' = "recording"
                 /\ status' = "Recording"
                 /\ session' = <<>>
                 /\ session_end' = "none"
                 /\ UNCHANGED panicked
            ELSE /\ panicked' = TRUE
                 /\ UNCHANGED <<rec_state, status, session, session_end>>
       ELSE UNCHANGED <<rec_state, status, session, session_end, panicked>>
    /\ UNCHANGED <<media, recorder_handle, chunks, playback_url, rec_tasks, blobs_made,
                   object_urls, prompter_vars>>

OnClickPause ==
    /\ ~panicked
    /\ mounted
    /\ ~PauseDisabled
    /\ event' = Ev("onclick_pause")
    /\ IF recorder_handle = "Some"
       THEN IF rec_state # "inactive"
            THEN /\ rec_state' = "paused"
                 /\ status' = "Paused"
                 /\ UNCHANGED panicked
            ELSE /\ panicked' = TRUE
                 /\ UNCHANGED <<rec_state, status>>
       ELSE UNCHANGED <<rec_state, status, panicked>>
    /\ UNCHANGED <<media, recorder_handle, chunks, playback_url, rec_tasks, blobs_made,
                   object_urls, session, session_end, prompter_vars>>

\* A faulty onclick_stop that merges whatever the status (see C8).
StopMergesAlways(st) == TRUE

\* if matches!(*status, RecordingStatus::Idle) { merge }
StopMerges(st) == st = "Idle"

\* A faulty onclick_stop that sets Idle itself (see C3, C4).
StatusAfterStopClickEager(st) == "Idle"

\* onclick_stop never sets the status.
StatusAfterStopClick(st) == st

\* A faulty merge that revokes the URLs created before (see C17).
CreateObjectUrlRevoking(urls, blobs) ==
    [u \in 1..Len(urls) |-> <<[id |-> 0, size |-> 0]>>] \o <<blobs>>

\* Url::create_object_url_with_blob: a new URL for the new blob; the URLs
\* created before stay as they are (nothing calls revoke_object_url).
CreateObjectUrl(urls, blobs) == Append(urls, blobs)

OnClickStop ==
    /\ ~panicked
    /\ mounted
    /\ ~StopDisabled
    /\ StopMerges(status) => Len(object_urls) < MaxUrls
    /\ event' = [Ev("onclick_stop") EXCEPT
                    !.merged = StopMerges(status),
                    !.stop_on = IF recorder_handle = "Some" THEN rec_state ELSE "none"]
    /\ IF recorder_handle = "Some" /\ rec_state # "inactive"
       THEN /\ rec_state' = "inactive"
            /\ rec_tasks' = rec_tasks \o <<"dataavailable", "stop">>
            /\ session_end' = "stop"
       ELSE UNCHANGED <<rec_state, rec_tasks, session_end>>
    /\ status' = StatusAfterStopClick(status)
    /\ IF StopMerges(status)
       THEN /\ object_urls' = CreateObjectUrl(object_urls, chunks)
            /\ playback_url' = Len(object_urls')
       ELSE UNCHANGED <<object_urls, playback_url>>
    /\ UNCHANGED <<media, recorder_handle, chunks, blobs_made, session, prompter_vars,
                   panicked>>

\* The device delivers data while it records.
RecorderData ==
    /\ ~panicked
    /\ rec_state = "recording"
    /\ blobs_made + 1 < MaxBlobs
    /\ \E size \in BlobSizes :
          LET blob == [id |-> blobs_made + 1, size |-> size]
          IN  /\ chunks' = OnDataAvailable(blob)
              /\ session' = Append(session, blob)
    /\ blobs_made' = blobs_made + 1
    /\ event' = Ev("ondataavailable")
    /\ UNCHANGED <<media, recorder_handle, status, playback_url, rec_state, rec_tasks,
                   object_urls, session_end, prompter_vars, panicked>>

\* The stream ends by itself (its tracks end): the recorder becomes inactive
\* and queues the same task as stop().
RecorderEnded ==
    /\ ~panicked
    /\ rec_state # "inactive"
    /\ rec_state' = "inactive"
    /\ rec_tasks' = rec_tasks \o <<"dataavailable", "stop">>
    /\ session_end' = "tracks"
    /\ event' = Ev("ended")
    /\ UNCHANGED <<media, recorder_handle, status, chunks, playback_url, blobs_made,
                   object_urls, session, prompter_vars, panicked>>

\* The task queued by stop() fires dataavailable with the last data.
RecorderFlush ==
    /\ ~panicked
    /\ rec_tasks # <<>> /\ Head(rec_tasks) = "dataavailable"
    /\ \E size \in BlobSizes :
          LET blob == [id |-> blobs_made + 1, size |-> size]
          IN  /\ chunks' = OnDataAvailable(blob)
              /\ session' = Append(session, blob)
    /\ blobs_made' = blobs_made + 1
    /\ rec_tasks' = Tail(rec_tasks)
    /\ event' = Ev("ondataavailable")
    /\ UNCHANGED <<media, recorder_handle, status, playback_url, rec_state, object_urls,
                   session_end, prompter_vars, panicked>>

\* ... and then stop: the onstop closure sets the status.
RecorderStopped ==
    /\ ~panicked
    /\ rec_tasks # <<>> /\ Head(rec_tasks) = "stop"
    /\ rec_tasks' = Tail(rec_tasks)
    /\ status' = "Idle"
    /\ event' = Ev("onstop")
    /\ UNCHANGED <<media, recorder_handle, chunks, playback_url, rec_state, blobs_made,
                   object_urls, session, session_end, prompter_vars, panicked>>

(***************************************************************************)
(* The estimator and the teleprompter.                                     *)
(***************************************************************************)
\* A result event.  The closure was given to the recognition object and
\* forgotten, so it runs for every result the object delivers: while it
\* listens, and once more for the result that stop() makes it return.  After
\* teardown wpm_recog.set still stores the value, but no component is left
\* to render, so no effect runs.
OnResult ==
    /\ ~panicked
    /\ recog \in {"started", "stopped"}
    /\ recog' = IF recog = "stopped" THEN "ended" ELSE recog
    /\ \E list \in ResultLists, at \in ElapsedMs :
          LET r == OnResultMemo[<<list, at>>]
              new_wpm == IF r.set THEN r.wpm ELSE wpm
              old_deps == <<is_prompting, wpm, script>>
              new_deps == <<is_prompting, new_wpm, script>>
          IN  /\ wpm' = new_wpm
              /\ IF mounted
                 THEN /\ interval' = Rerender(old_deps, new_deps,
                                              [by |-> "onresult",
                                               ticked |-> Ticked(interval)])
                      /\ timers' = TimersAfter(old_deps, new_deps)
                 ELSE UNCHANGED <<interval, timers>>
              /\ event' = [Ev("onresult") EXCEPT !.words = r.words, !.ms = at, !.was = wpm]
    /\ UNCHANGED <<recorder_vars, script, is_prompting, scroll_top, ticked_before,
                   mounted, panicked>>

OnClickToggle ==
    /\ ~panicked
    /\ mounted
    /\ timers' = TimersAfter(<<is_prompting, wpm, script>>, <<~is_prompting, wpm, script>>)
    /\ is_prompting' = ~is_prompting
    /\ ticked_before' = (IF is_prompting THEN Ticked(interval) ELSE ticked_before)
    /\ interval' = Rerender(<<is_prompting, wpm, script>>, <<~is_prompting, wpm, script>>,
                            [by |-> "onclick_toggle", ticked |-> ticked_before])
    /\ event' = Ev("onclick_toggle")
    /\ UNCHANGED <<recorder_vars, wpm, recog, script, scroll_top, mounted, panicked>>

OnInput ==
    /\ ~panicked
    /\ mounted
    /\ \E txt \in Scripts :
          /\ script' = txt
          /\ timers' = TimersAfter(<<is_prompting, wpm, script>>, <<is_prompting, wpm, txt>>)
          /\ interval' = Rerender(<<is_prompting, wpm, script>>, <<is_prompting, wpm, txt>>,
                                  [by |-> "oninput", ticked |-> Ticked(interval)])
    /\ event' = Ev("oninput")
    /\ UNCHANGED <<recorder_vars, wpm, recog, is_prompting, scroll_top, ticked_before,
                   mounted, panicked>>

\* The Interval fires: acc += words_per_ms * 50.0; set_scroll_top((acc * 20.0) as i32)
IntervalTick ==
    /\ ~panicked
    /\ interval.on
    /\ interval.ticks < MaxTicks
    /\ interval' = [interval EXCEPT !.acc = TickAcc(interval), !.ticks = @ + 1]
    /\ scroll_top' = ScrollOffset(TickAcc(interval))
    /\ event' = Ev("tick")
    /\ UNCHANGED <<recorder_vars, wpm, recog, script, is_prompting, ticked_before, timers,
                   mounted, panicked>>

\* The component is torn down: the recognition effect's teardown takes the
\* object out of recog_ref and calls stop() on it, the teleprompter effect's
\* cleanup drops its Interval, and the component's state and DOM go with it
\* (the wpm cell stays, held by the forgotten onresult closure).
Unmount ==
    /\ ~panicked
    /\ mounted
    /\ mounted' = FALSE
    /\ recog' = IF recog = "started" THEN "stopped" ELSE recog
    /\ interval' = NoInterval
    /\ timers' = Cleanup(interval, timers)
    /\ script' = ""
    /\ is_prompting' = FALSE
    /\ scroll_top' = 0
    /\ ticked_before' = FALSE
    /\ event' = Ev("unmount")
    /\ UNCHANGED <<recorder_vars, wpm, panicked>>

\* A faulty start that leaves no estimate when recognition is missing
\* (see C15).
InitAbsentZero ==
    /\ media = "awaiting"
    /\ recorder_handle = "None"
    /\ status = "Idle"
    /\ chunks = <<>>
    /\ playback_url = 0
    /\ rec_state = "inactive"
    /\ rec_tasks = <<>>
    /\ blobs_made = 0
    /\ object_urls = <<>>
    /\ session = <<>>
    /\ session_end = "none"
    /\ recog \in {"started", "absent"}
    /\ wpm = IF recog = "absent" THEN 0 ELSE 120
    /\ script = ""
    /\ is_prompting = FALSE
    /\ interval = NoInterval
    /\ scroll_top = 0
    /\ ticked_before = FALSE
    /\ timers = 0
    /\ mounted = TRUE
    /\ panicked = FALSE
    /\ event = Ev("mount")

Init ==
    /\ media = "awaiting"
    /\ recorder_handle = "None"
    /\ status = "Idle"
    /\ chunks = <<>>
    /\ playback_url = 0
    /\ rec_state = "inactive"
    /\ rec_tasks = <<>>
    /\ blobs_made = 0
    /\ object_urls = <<>>
    /\ session = <<>>
    /\ session_end = "none"
    /\ wpm = 120
    /\ recog \in {"started", "absent"}
    /\ script = ""
    /\ is_prompting = FALSE
    /\ interval = NoInterval
    /\ scroll_top = 0
    /\ ticked_before = FALSE
    /\ timers = 0
    /\ mounted = TRUE
    /\ panicked = FALSE
    /\ event = Ev("mount")

NextRecorder ==
    \/ InitRecorderOk
    \/ InitRecorderErr
    \/ OnClickStart
    \/ OnClickPause
    \/ OnClickStop
    \/ RecorderData
    \/ RecorderEnded
    \/ RecorderFlush
    \/ RecorderStopped

NextPrompter ==
    \/ OnResult
    \/ OnClickToggle
    \/ OnInput
    \/ IntervalTick
    \/ Unmount

Next == NextRecorder \/ NextPrompter

Spec == Init /\ [][Next]_vars

\* The recorder and the prompter share no state: each is checked on its own.
SpecRecorder == Init /\ [][NextRecorder]_vars
SpecPrompter == Init /\ [][NextPrompter]_vars

\* The handlers the page wires to its controls.
UserAction == OnClickStart \/ OnClickPause \/ OnClickStop \/ OnClickToggle \/ OnInput

(***************************************************************************)
(* Properties.                                                             *)
(***************************************************************************)
\* C1: the fragment sequence a merge puts into the playback artifact is the
\* sequence of fragments emitted during the session before it, in emission
\* order, none dropped, duplicated or reordered.
C1_MergedEqualsEmitted ==
    event.name = "onclick_stop" /\ event.merged =>
        object_urls[playback_url] = session

\* C2: when the end-of-session notification answers a stop request made while
\* Recording or Paused, the playback artifact holding all the session's
\* fragments exists without any further user action (playback_url is written
\* by onclick_stop alone, so it must exist when the notification is handled).
C2_ArtifactAfterNotification ==
    event.name = "onstop" /\ session_end = "stop" =>
        playback_url # 0 /\ object_urls[playback_url] = session

\* C3: a fragment is appended to the buffer only while status is Recording or
\* Paused, never while it is Idle.
C3_AppendOnlyWhileActive ==
    [][chunks' # chunks => status \in {"Recording", "Paused"}]_vars

\* The final fragment of a session arrives after the stop request, with the
\* recorder already inactive and the status still Paused.
C3_Witness ==
    event.name = "ondataavailable" /\ status = "Paused" /\ rec_state = "inactive"
        /\ chunks # <<>>

\* C4: status changes only from Idle to Recording on start, from Recording to
\* Paused on pause, and from Recording or Paused to Idle on the device's
\* end-of-session notification (the code has no resume step); the Stop click
\* leaves status unchanged, and status becomes Idle only on the notification.
C4_StatusSteps ==
    [][/\ status' # status =>
            \/ status = "Idle" /\ status' = "Recording" /\ event'.name = "onclick_start"
            \/ status = "Recording" /\ status' = "Paused" /\ event'.name = "onclick_pause"
            \/ status \in {"Recording", "Paused"} /\ status' = "Idle"
                  /\ event'.name = "onstop"
       /\ event'.name = "onclick_stop" => status' = status
       /\ status # "Idle" /\ status' = "Idle" => event'.name = "onstop"]_vars

\* The notification that answers a Stop click has made the status Idle.
C4_Witness ==
    event.name = "onstop" /\ status = "Idle" /\ session_end = "stop"

\* C5: a transcript event with w words at e seconds leaves the estimate as it
\* was when e <= 1.0, and otherwise makes it round(w / e * 60), the nearest
\* integer with halves rounded up (e is ms / 1000, so w / e * 60 is
\* 60000 * w / ms).
C5_WpmIsRounded ==
    event.name = "onresult" =>
        IF event.ms <= 1000 THEN wpm = event.was
        ELSE /\ 2 * wpm * event.ms - event.ms <= 120000 * event.words
             /\ 120000 * event.words < 2 * wpm * event.ms + event.ms

\* C6: after N ticks of one activation at rate W the offset written is
\* N * (W * 50 / 60000) * 20 truncated, that is N * W / 60 truncated.
C6_OffsetAfterTicks ==
    event.name = "tick" =>
        scroll_top = (interval.ticks * interval.wpm_val) \div 60

\* C7: the first tick of any activation, and so of one that follows a toggle
\* off and on after earlier ticks, writes the offset that the first tick of a
\* fresh activation at the same WPM writes.
C7_FirstTickAsFresh ==
    event.name = "tick" /\ interval.ticks = 1 =>
        scroll_top = ScrollOffset(TickAcc([on |-> TRUE,
                                           words_per_ms |-> WordsPerMs(interval.wpm_val),
                                           acc |-> F64Zero]))

\* The first tick after a toggle off and on, the cancelled Interval having ticked.
C7_Witness ==
    /\ event.name = "tick" /\ interval.ticks = 1
    /\ interval.how.by = "onclick_toggle" /\ interval.how.ticked
    /\ scroll_top > 0

\* C8: a playback artifact is created only when status is Idle and no
\* end-of-session notification is outstanding, never while Recording or Paused.
C8_MergeOnlyWhenIdle ==
    event.name = "onclick_stop" /\ event.merged =>
        status = "Idle" /\ rec_tasks = <<>> /\ rec_state = "inactive"

\* A merge after a session that a Stop click ended.
C8_Witness ==
    /\ event.name = "onclick_stop" /\ event.merged
    /\ session_end = "stop" /\ object_urls[playback_url] # <<>>

\* C9: stop() is called on the recorder only while it is recording or paused,
\* never on a recorder that was not started or has already ended.
C9_StopOnlyWhileActive ==
    event.name = "onclick_stop" /\ event.stop_on # "none" =>
        event.stop_on \in {"recording", "paused"}

\* C10: in a paused session some enabled user action returns the status to
\* Recording.
C10_PausedCanResume ==
    status = "Paused" /\ rec_state = "paused" =>
        ENABLED (UserAction /\ status' = "Recording")

\* C11: the playback handle is set only when at least one fragment is
\* buffered: a merge over an empty buffer (a Stop click before anything was
\* recorded, or after acquisition failed) leaves it absent.
C11_NoArtifactFromEmptyBuffer ==
    playback_url # 0 => object_urls[playback_url] # <<>>

\* C12: while stream acquisition has failed or has not completed, clicks are
\* no-ops: status stays Idle, no recorder exists or is operated, and no
\* fragment is appended; a failed acquisition stays failed.
C12_NoRecorderNoSession ==
    [][/\ media' # "granted" =>
            /\ status' = "Idle" /\ recorder_handle' = "None"
            /\ rec_state' = "inactive" /\ rec_tasks' = <<>>
            /\ chunks' = <<>> /\ blobs_made' = 0 /\ ~panicked'
       /\ media = "denied" => media' = "denied"]_vars

\* A Record click after getUserMedia was rejected.
C12_Witness ==
    event.name = "onclick_start" /\ media = "denied" /\ status = "Idle"

\* C13: the scroll offset changes only by a tick that runs while the prompter
\* is active; while it is inactive no Interval exists, so no tick fires and
\* the offset keeps its last value.
C13_OffsetOnlyByActiveTicks ==
    [][/\ scroll_top' # scroll_top /\ mounted' =>
            event'.name = "tick" /\ is_prompting /\ is_prompting'
       /\ ~is_prompting' => ~interval'.on /\ timers' = 0]_vars

\* The prompter was switched off after it had scrolled: the offset stays.
C13_Witness ==
    event.name = "onclick_toggle" /\ ~is_prompting /\ mounted /\ scroll_top > 0

\* C14: after teardown recognition is stopped, and a result callback that
\* arrives then leaves the WPM estimate as it was.
C14_NoUpdateAfterTeardown ==
    ~mounted =>
        /\ recog # "started"
        /\ event.name = "onresult" => wpm = event.was

\* C15: when the recognition object cannot be constructed, recognition is
\* never started, no result event occurs and the estimate is 120 in every
\* state, also as the rate the teleprompter captures.
C15_DefaultWithoutRecognition ==
    [][/\ recog = "absent" => recog' = "absent"
       /\ recog' = "absent" =>
            /\ wpm' = 120 /\ event'.name # "onresult"
            /\ interval'.on => interval'.wpm_val = 120]_vars

\* The teleprompter scrolls although there is no recognition.
C15_Witness ==
    recog = "absent" /\ event.name = "tick" /\ scroll_top > 0

\* C16: while the prompter stays active, a transcript event changes neither
\* the per-tick increment nor the accumulator of the running tick.
C16_RateFixedAtActivation ==
    [][event'.name = "onresult" /\ mounted' /\ interval.on =>
            /\ interval'.on
            /\ interval'.words_per_ms = interval.words_per_ms
            /\ interval'.acc = interval.acc]_vars

\* C17: a merge puts the buffered fragments under a newly allocated handle and
\* leaves every earlier handle and its artifact as they were; the merge of a
\* second Stop click right after a first gives the same fragment sequence.
C17_MergeAllocatesAndKeeps ==
    [][event'.name = "onclick_stop" /\ event'.merged =>
            /\ playback_url' \notin DOMAIN object_urls
            /\ playback_url' \in DOMAIN object_urls'
            /\ object_urls'[playback_url'] = chunks
            /\ \A u \in DOMAIN object_urls : object_urls'[u] = object_urls[u]
            /\ event.name = "onclick_stop" /\ event.merged =>
                  /\ playback_url' # playback_url
                  /\ object_urls'[playback_url'] = object_urls'[playback_url]]_vars

\* Two artifacts of a recorded session, the second from a repeated Stop click.
C17_Witness ==
    /\ event.name = "onclick_stop" /\ event.merged
    /\ playback_url = 2 /\ object_urls[1] = object_urls[2] /\ object_urls[2] # <<>>

\* C18: while the prompter is active, a change of the WPM estimate or of the
\* script text replaces the running tick by a new one with accumulator zero
\* and the rate of the new WPM, whose first tick writes a one-tick offset.
C18_ChangeRestartsTick ==
    [][/\ mounted' /\ is_prompting /\ is_prompting' /\ (wpm' # wpm \/ script' # script) =>
            /\ interval'.on /\ interval'.ticks = 0
            /\ interval'.acc = F64Zero
            /\ interval'.words_per_ms = WordsPerMsMemo[wpm']
       /\ event'.name = "tick" /\ interval'.ticks = 1
             /\ interval'.how.by \in {"onresult", "oninput"} =>
            scroll_top' = ScrollOffset(TickAcc([on |-> TRUE,
                                                words_per_ms |-> WordsPerMsMemo[wpm'],
                                                acc |-> F64Zero]))]_vars

\* The first tick after a transcript event changed the WPM of a prompter that
\* had already scrolled.
C18_Witness ==
    /\ event.name = "tick" /\ interval.ticks = 1
    /\ interval.how.by = "onresult" /\ interval.how.ticked
    /\ interval.wpm_val # 120 /\ scroll_top > 0

\* C19: at most one tick timer is alive at any time, and one is alive exactly
\* when the prompter is active: a re-derivation of the tick has cleared the
\* previous timer when the new one is set.
C19_OneTimerWhenActive ==
    /\ timers \in {0, 1}
    /\ timers = 1 <=> interval.on
    /\ mounted => (timers = 1 <=> is_prompting)

\* A running timer that replaced one that had ticked, after a WPM change.
C19_Witness ==
    /\ timers = 1 /\ interval.on /\ interval.ticks > 0
    /\ interval.how.by = "onresult" /\ interval.how.ticked

\* C20: the displayed status is the recorder's own state (Idle for inactive),
\* except between a stop request and its end-of-session notification, where
\* status is Paused with the recorder inactive and Stop is the only enabled
\* recorder control.
C20_StatusMirrorsRecorder ==
    LET same == \/ status = "Idle" /\ rec_state = "inactive"
                \/ status = "Recording" /\ rec_state = "recording"
                \/ status = "Paused" /\ rec_state = "paused"
        stopping == session_end = "stop" /\ rec_tasks # <<>>
    IN  /\ same \/ (stopping /\ status = "Paused" /\ rec_state = "inactive")
        /\ stopping => RecordDisabled /\ PauseDisabled /\ ~StopDisabled
====
